---- MODULE Spec2Model ----
(***************************************************************************)
(* Offline-first survey collection: the browser client's local store and   *)
(* pending-sync queue (script.js, DataManager / TeamApp) and the server's  *)
(* reconciliation endpoint (surveyResponseController.js, syncResponses).   *)
(*                                                                         *)
(* Every `await` of the JavaScript source is a point where another         *)
(* handler may run, so a handler is one action per stretch of code between *)
(* two awaits.                                                             *)
(***************************************************************************)
EXTENDS Integers, Sequences, FiniteSets, TLC

\* ------------------------------------------------------------------ bounds
\* Number of sync requests the server sees / sync calls the client makes.
MaxReq == 2
\* Longest batch an API caller submits in the concurrent specification.
MaxBatch == 2
\* Longest batch submitted in the one-request-at-a-time specification.
MaxSeqBatch == 3
\* Number of surveys the user fills in on the client.
MaxLocal == 2

\* ------------------------------------------------------------------ values
\* JavaScript's undefined: a field the object does not carry.
NoValue == "undefined"

ReqIds == 1..MaxReq

\* req.user as the auth middleware attaches it: two users of two teams.
Users == {[id |-> "u1", team |-> "teamA"], [id |-> "u2", team |-> "teamB"]}

ALREADY_SYNCED == "Response already synced"
VALIDATION_FAILED == "SurveyResponse validation failed"

\* One element of req.body.responses. deviceId and startTime are
\* deviceInfo?.deviceId and analytics?.startTime; team, collectedBy,
\* syncStatus and syncHistory are what the submitted object itself carries
\* under those names. castable tells whether the schema accepts the item's
\* other fields (a Number or Date path holding something else makes
\* create() reject). localId is the client's own id of the survey (0 when
\* the item does not come from the browser client's queue). surveyTemplate
\* is a well-formed id: the route's isMongoId() check passes.
Item(dev, start, ok, tpl, team, by, status, hist, lid) ==
    [deviceId |-> dev, startTime |-> start, castable |-> ok,
     surveyTemplate |-> tpl, team |-> team,
     collectedBy |-> by, syncStatus |-> status, syncHistory |-> hist,
     localId |-> lid]

\* The items API callers submit: three distinct (deviceId, startTime) keys
\* sharing a device or a start time pairwise, an item carrying ownership and
\* sync fields of its own, and an item the schema rejects.
ApiItems ==
    { Item("devA", "t1", TRUE, "tpl1", NoValue, NoValue, NoValue, NoValue, 0),
      Item("devA", "t2", TRUE, "tpl1", "teamB", "u2", "pending", <<"failed">>, 0),
      Item("devB", "t1", TRUE, "tpl1", "teamA", "u1", "failed", <<>>, 0),
      Item("devB", "t1", FALSE, "tpl1", NoValue, NoValue, NoValue, NoValue, 0) }

BatchesUpTo(n) == UNION {[1..k -> ApiItems] : k \in 0..n}

VARIABLES
    db,         \* server: the SurveyResponse collection, in insertion order
    req,        \* server: the syncResponses invocations, by request
    online,     \* client: navigator.onLine
    onlineEvt,  \* client: an 'online' event is queued and not yet handled
    surveys,    \* client: localStorage survey_responses
    queue,      \* client: localStorage pending_sync_queue
    call,       \* client: the syncOfflineResponses invocations, by request
    sub,        \* client: the submitSurvey invocation awaiting its POST
    nsub,       \* client: number of surveys submitted so far
    acked,      \* surveys for which the client has received a server success
    templates,  \* server: the SurveyTemplate collection
    tdel,       \* server: the deleteTemplate invocation
    tsub,       \* server: the submitResponse invocation of an API caller
    tupd,       \* server: the updateTemplate invocation
    authToken,  \* client: an auth token is held (logged in)
    syncInterval,   \* client: TeamApp.syncInterval is running
    currentRatings, \* client: SurveyManager.currentRatings, in entry order
    topProblems,    \* client: the top problems last computed for display
    responses,      \* client: the list loadDashboard read from the store
    processedData,  \* client: what processSurveyData returned for it
    insights,       \* client: what InsightGenerator made of processedData
    deviceId,       \* client: localStorage deviceId
    generated,      \* client: number of device ids generateId has made
    entry,          \* client: how each list is found in localStorage
    got             \* client: the outcome of the last read of a list

serverVars == <<db, req>>
clientVars == <<online, onlineEvt, surveys, queue, call, sub, nsub, acked>>
tplVars == <<templates, tdel, tsub, tupd>>
sessVars == <<authToken, syncInterval>>
formVars == <<currentRatings, topProblems>>
dashVars == <<responses, processedData, insights>>
devVars == <<deviceId, generated>>
storeVars == <<entry, got>>
appVars == <<tplVars, sessVars, formVars, dashVars, storeVars>>
restVars == <<appVars, devVars>>
vars == <<db, req, online, onlineEvt, surveys, queue, call, sub, nsub, acked,
          templates, tdel, tsub, tupd, authToken, syncInterval,
          currentRatings, topProblems, responses, processedData, insights,
          deviceId, generated, entry, got>>

\* after: the requests already answered when this one arrived; seen: the
\* number of documents stored when it arrived.
IdleReq ==
    [pc |-> "idle", user |-> NoValue, batch |-> <<>>, idx |-> 0,
     successful |-> <<>>, failed |-> <<>>, after |-> {}, seen |-> 0]

\* ------------------------------------------------------------------ server
\* SurveyResponse.findOne({'deviceInfo.deviceId': d, 'analytics.startTime': t}):
\* the documents matching both fields; an undefined value in the filter is
\* sent as null and matches the documents that lack the field.
\* As Matching, with the start times compared as Date objects (by identity):
\* two defined start times never match.
MatchingByIdentity(store, item) ==
    {i \in 1..Len(store) : /\ store[i].deviceId = item.deviceId
                           /\ store[i].startTime = item.startTime
                           /\ item.startTime = NoValue}

Matching(store, item) ==
    {i \in 1..Len(store) : /\ store[i].deviceId = item.deviceId
                           /\ store[i].startTime = item.startTime}

FindOne(store, item) ==
    IF Matching(store, item) = {} THEN 0
    ELSE CHOOSE i \in Matching(store, item) : \A j \in Matching(store, item) : i <= j

\* The document SurveyResponse.create() stores for an item: the item's own
\* fields first, then collectedBy, team, syncStatus and syncHistory set by
\* the controller. by and pos record the request and the batch position the
\* document comes from.
\* As NewResponse, with the item spread after the controller's fields: what
\* the item carries wins.
NewResponseItemLast(item, user, id, r, pos) ==
    [id |-> id, deviceId |-> item.deviceId, startTime |-> item.startTime,
     surveyTemplate |-> item.surveyTemplate,
     collectedBy |-> IF item.collectedBy = NoValue THEN user.id ELSE item.collectedBy,
     team |-> IF item.team = NoValue THEN user.team ELSE item.team,
     syncStatus |-> IF item.syncStatus = NoValue THEN "synced" ELSE item.syncStatus,
     syncHistory |-> IF item.syncHistory = NoValue THEN <<"synced">> ELSE item.syncHistory,
     localId |-> item.localId, by |-> r, pos |-> pos]

NewResponse(item, user, id, r, pos) ==
    [id |-> id, deviceId |-> item.deviceId, startTime |-> item.startTime,
     surveyTemplate |-> item.surveyTemplate,
     collectedBy |-> user.id, team |-> user.team, syncStatus |-> "synced",
     syncHistory |-> <<"synced">>, localId |-> item.localId,
     by |-> r, pos |-> pos]

\* The for loop moves to the next item, or ends and res.json() is sent.
Advance(q) ==
    IF q.idx >= Len(q.batch) THEN [q EXCEPT !.pc = "done"]
    ELSE [q EXCEPT !.idx = q.idx + 1, !.pc = "findOne"]

\* syncResponses is entered with an array body: it runs up to the first
\* findOne, or straight to the response when the array is empty.
SyncStart(r, user, batch) ==
    /\ req[r].pc = "idle"
    /\ req' = [req EXCEPT ![r] =
                 Advance([IdleReq EXCEPT !.user = user, !.batch = batch,
                            !.after = {q \in ReqIds : req[q].pc = "done"},
                            !.seen = Len(db)])]
    /\ UNCHANGED db

\* As SyncFindOne, with break in place of continue: a hit ends the loop.
SyncFindOneBreak(r) ==
    /\ req[r].pc = "findOne"
    /\ LET q == req[r]
           item == q.batch[q.idx]
       IN IF FindOne(db, item) # 0
          THEN req' = [req EXCEPT ![r] =
                         [q EXCEPT !.pc = "done",
                                   !.failed =
                            Append(q.failed, [deviceId |-> item.deviceId,
                                              error |-> ALREADY_SYNCED,
                                              pos |-> q.idx])]]
          ELSE req' = [req EXCEPT ![r].pc = "create"]
    /\ UNCHANGED <<db, clientVars, restVars>>

\* As SyncFindOne, without the continue: a hit is pushed to failed and
\* create() is issued all the same.
SyncFindOneFallThrough(r) ==
    /\ req[r].pc = "findOne"
    /\ LET q == req[r]
           item == q.batch[q.idx]
       IN IF FindOne(db, item) # 0
          THEN req' = [req EXCEPT ![r] =
                         [q EXCEPT !.pc = "create",
                                   !.failed =
                            Append(q.failed, [deviceId |-> item.deviceId,
                                              error |-> ALREADY_SYNCED,
                                              pos |-> q.idx])]]
          ELSE req' = [req EXCEPT ![r].pc = "create"]
    /\ UNCHANGED <<db, clientVars, restVars>>

\* The awaited findOne returns: a hit is pushed to failed and the loop
\* continues; otherwise create() is issued.
SyncFindOne(r) ==
    /\ req[r].pc = "findOne"
    /\ LET q == req[r]
           item == q.batch[q.idx]
       IN IF FindOne(db, item) # 0
          THEN req' = [req EXCEPT ![r] =
                         Advance([q EXCEPT !.failed =
                            Append(q.failed, [deviceId |-> item.deviceId,
                                              error |-> ALREADY_SYNCED,
                                              pos |-> q.idx])])]
          ELSE req' = [req EXCEPT ![r].pc = "create"]
    /\ UNCHANGED <<db, clientVars, restVars>>

\* A surveyTemplate value that is not a well-formed ObjectId.
MalformedId == "not-an-id"

\* create() resolves: the item's paths cast to their schema types and the
\* required surveyTemplate is present and casts to an ObjectId.
SchemaAccepts(item) ==
    /\ item.castable
    /\ item.surveyTemplate \notin {NoValue, MalformedId}

\* As SyncCreate, with the rejection leaving the loop (caught outside the
\* for statement): the items after a rejected one are not processed.
SyncCreateAborting(r) ==
    /\ req[r].pc = "create"
    /\ LET q == req[r]
           item == q.batch[q.idx]
           id == Len(db) + 1
       IN IF SchemaAccepts(item)
          THEN /\ db' = Append(db, NewResponse(item, q.user, id, r, q.idx))
               /\ req' = [req EXCEPT ![r] =
                            Advance([q EXCEPT !.successful = Append(q.successful, id)])]
          ELSE /\ db' = db
               /\ req' = [req EXCEPT ![r] =
                            [q EXCEPT !.pc = "done",
                                      !.failed =
                               Append(q.failed, [deviceId |-> item.deviceId,
                                                 error |-> VALIDATION_FAILED,
                                                 pos |-> q.idx])]]
    /\ UNCHANGED <<clientVars, restVars>>

\* The awaited create() returns: the new document's _id is pushed to
\* successful, or the rejection is caught and pushed to failed.
SyncCreate(r) ==
    /\ req[r].pc = "create"
    /\ LET q == req[r]
           item == q.batch[q.idx]
           id == Len(db) + 1
       IN IF SchemaAccepts(item)
          THEN /\ db' = Append(db, NewResponse(item, q.user, id, r, q.idx))
               /\ req' = [req EXCEPT ![r] =
                            Advance([q EXCEPT !.successful = Append(q.successful, id)])]
          ELSE /\ db' = db
               /\ req' = [req EXCEPT ![r] =
                            Advance([q EXCEPT !.failed =
                               Append(q.failed, [deviceId |-> item.deviceId,
                                                 error |-> VALIDATION_FAILED,
                                                 pos |-> q.idx])])]
    /\ UNCHANGED <<clientVars, restVars>>

\* An API caller posts a batch to /api/survey-responses/sync. Requests are
\* numbered in the order they arrive.
ApiSync(r) ==
    /\ \A q \in 1..(r - 1) : req[q].pc # "idle"
    /\ \E user \in Users, batch \in BatchesUpTo(MaxBatch) : SyncStart(r, user, batch)
    /\ UNCHANGED <<clientVars, restVars>>

\* The same, by a caller that waits for each answer before the next request.
ApiSyncSeq(r) ==
    /\ \A q \in 1..(r - 1) : req[q].pc = "done"
    /\ \A q \in ReqIds : req[q].pc \in {"idle", "done"}
    /\ \E user \in Users, batch \in BatchesUpTo(MaxSeqBatch) : SyncStart(r, user, batch)
    /\ UNCHANGED <<clientVars, restVars>>

\* Template ids callers name: the id of the stored template and an id no
\* template has.
TemplateIds == {"tpl1", "tpl2"}

\* The items posted through the route in the validation specification: two
\* well-formed new items, one without surveyTemplate and one whose
\* surveyTemplate is not an ObjectId.
RouteItems ==
    { Item("devA", "t1", TRUE, "tpl1", NoValue, NoValue, NoValue, NoValue, 0),
      Item("devA", "t2", TRUE, NoValue, NoValue, NoValue, NoValue, NoValue, 0),
      Item("devB", "t1", TRUE, MalformedId, NoValue, NoValue, NoValue, NoValue, 0),
      Item("devB", "t2", TRUE, "tpl1", NoValue, NoValue, NoValue, NoValue, 0) }

RouteBatches(n) == UNION {[1..k -> RouteItems] : k \in 0..n}

\* syncValidation: body('responses.*.surveyTemplate').isMongoId() records
\* an error for every position whose surveyTemplate is not a well-formed id.
SyncValidation(batch) ==
    {p \in 1..Len(batch) : batch[p].surveyTemplate \notin TemplateIds}

\* handleValidationErrors (middleware/validation): a malformed item is a
\* per-item failure that does not block its siblings, so the request goes
\* on to the controller with the recorded errors, whatever they are.
HandleValidationErrors(errors) == errors \subseteq Nat

\* POST /api/survey-responses/sync through auth, syncValidation and
\* handleValidationErrors, by a caller that waits for each answer.
PostSync(r) ==
    /\ \A q \in 1..(r - 1) : req[q].pc = "done"
    /\ \A q \in ReqIds : req[q].pc \in {"idle", "done"}
    /\ \E user \in Users, batch \in RouteBatches(MaxBatch) :
         /\ HandleValidationErrors(SyncValidation(batch))
         /\ SyncStart(r, user, batch)
    /\ UNCHANGED <<clientVars, restVars>>

IdleCall == [pc |-> "idle", batch |-> <<>>, error |-> NoValue]

\* The SurveyTemplate collection the server starts with: one active
\* template of team A.
InitialTemplates ==
    {[id |-> "tpl1", team |-> "teamA", createdBy |-> "u1", status |-> "active"]}

\* The localStorage keys of the stored surveys and of the pending queue.
SURVEYS == "survey_responses"
PENDING_SYNC == "pending_sync_queue"
StorageKeys == {SURVEYS, PENDING_SYNC}

\* No list has been read.
NotRead == [op |-> NoValue, kind |-> NoValue, value |-> <<>>]

\* The device id stored by a page load with a token (TeamApp.init reads it
\* in loadTeamData and setupPresenceDetection).
ClientDevice == "devC"

\* processSurveyData has not been called.
NotComputed == [kind |-> NoValue]

IdleDel == [pc |-> "idle", user |-> NoValue, id |-> NoValue]
IdleSub == [pc |-> "idle", user |-> NoValue, tpl |-> NoValue]

\* The fields of a PUT body that the template schema also has, besides the
\* validated name, description and questions: absent, or a value.
NoBody == [team |-> NoValue, createdBy |-> NoValue, status |-> NoValue]
IdleUpd == [pc |-> "idle", user |-> NoValue, id |-> NoValue, body |-> NoBody]

Init ==
    /\ db = <<>>
    /\ req = [r \in ReqIds |-> IdleReq]
    /\ online = TRUE
    /\ onlineEvt = FALSE
    /\ surveys = <<>>
    /\ queue = <<>>
    /\ call = [c \in ReqIds |-> IdleCall]
    /\ sub = "none"
    /\ nsub = 0
    /\ acked = {}
    /\ templates = InitialTemplates
    /\ tdel = IdleDel
    /\ tsub = IdleSub
    /\ tupd = IdleUpd
    /\ authToken = TRUE
    /\ syncInterval = TRUE
    /\ currentRatings = <<>>
    /\ topProblems = <<>>
    /\ responses = <<>>
    /\ processedData = NotComputed
    /\ insights = NotComputed
    /\ deviceId = ClientDevice
    /\ generated = 0
    /\ entry = [k \in StorageKeys |-> "written"]
    /\ got = NotRead

Next ==
    \E r \in ReqIds :
        \/ ApiSync(r)
        \/ SyncFindOne(r)
        \/ SyncCreate(r)

Spec == Init /\ [][Next]_vars

NextSeq ==
    \E r \in ReqIds :
        \/ ApiSyncSeq(r)
        \/ SyncFindOne(r)
        \/ SyncCreate(r)

SpecSeq == Init /\ [][NextSeq]_vars

NextRoute ==
    \E r \in ReqIds :
        \/ PostSync(r)
        \/ SyncFindOne(r)
        \/ SyncCreate(r)

SpecRoute == Init /\ [][NextRoute]_vars

\* ------------------------------------------------------------------ client
\* The user the browser client is logged in as.
ClientUser == [id |-> "u1", team |-> "teamA"]
\* currentSurveyTemplate: the template the user has selected.
ClientTemplate == "tpl1"

\* An element of the pending queue as the sync endpoint reads it: the
\* completeSurvey object has no deviceInfo and no analytics (its deviceId is
\* a top-level field), and carries collectedBy and syncStatus of its own.
ToItem(s) ==
    Item(NoValue, NoValue, TRUE, ClientTemplate, NoValue, "collector name",
         s.syncStatus, NoValue, s.id)

ToItems(q) == [i \in 1..Len(q) |-> ToItem(q[i])]

Ids(q) == {q[i].id : i \in 1..Len(q)}

\* generateId, called for a device id: Date.now() and Math.random() in base
\* 36, a value that was not returned before.
GenerateId == "dev" \o ToString(generated + 1)

\* getDeviceId: the stored id, or a generated one when none is stored.
GetDeviceId == IF deviceId = NoValue THEN GenerateId ELSE deviceId

\* getDeviceId's effect on the store: a generated id is kept.
StoreDeviceId ==
    /\ deviceId' = GetDeviceId
    /\ generated' = IF deviceId = NoValue THEN generated + 1 ELSE generated

\* saveSurveyLocal: the survey is stored with the device id and a status
\* read from navigator.onLine, and queued when navigator.onLine is false.
CompleteSurvey(n, on) ==
    [id |-> n, syncStatus |-> IF on THEN "synced" ELSE "pending",
     deviceId |-> GetDeviceId]

\* As SaveSurveyLocal, with the status read from navigator.onLine written
\* to every stored survey, not only to the new one.
SaveSurveyLocalRestamping(n) ==
    /\ surveys' = Append([i \in 1..Len(surveys) |->
                             [surveys[i] EXCEPT !.syncStatus =
                                 CompleteSurvey(n, online).syncStatus]],
                         CompleteSurvey(n, online))
    /\ queue' = IF ~online THEN Append(queue, CompleteSurvey(n, online)) ELSE queue
    /\ StoreDeviceId

SaveSurveyLocal(n) ==
    /\ surveys' = Append(surveys, CompleteSurvey(n, online))
    /\ queue' = IF ~online THEN Append(queue, CompleteSurvey(n, online)) ELSE queue
    /\ StoreDeviceId

\* submitSurvey while navigator.onLine is false: saved and queued at once.
\* The survey form is shown only to a logged-in user.
SubmitOffline ==
    /\ authToken
    /\ sub = "none" /\ nsub < MaxLocal /\ ~online
    /\ nsub' = nsub + 1
    /\ SaveSurveyLocal(nsub + 1)
    /\ UNCHANGED <<appVars, serverVars, online, onlineEvt, call, sub, acked>>

\* submitSurvey while navigator.onLine is true: the POST, which carries the
\* device id, is issued and awaited. The user submits the next survey after this one has settled.
SubmitPost ==
    /\ authToken
    /\ sub = "none" /\ nsub < MaxLocal /\ online
    /\ nsub' = nsub + 1
    /\ sub' = "posting"
    /\ StoreDeviceId
    /\ UNCHANGED <<appVars, serverVars, online, onlineEvt, surveys, queue, call, acked>>

\* The server's submitResponse for that POST: with the template found
\* (existing, of the caller's team and active) the document is created and
\* 201 is sent, otherwise 404. found is the result of SurveyTemplate.findOne.
SubmitResponse(found) ==
    /\ sub = "posting"
    /\ IF found
       THEN /\ db' = Append(db, [id |-> Len(db) + 1, deviceId |-> deviceId,
                                 startTime |-> ToString(nsub),
                                 surveyTemplate |-> ClientTemplate,
                                 collectedBy |-> ClientUser.id,
                                 team |-> ClientUser.team, syncStatus |-> "synced",
                                 syncHistory |-> <<>>, localId |-> nsub,
                                 by |-> 0, pos |-> 0])
            /\ sub' = "created"
       ELSE /\ db' = db
            /\ sub' = "notfound"
    /\ UNCHANGED <<restVars, req, online, onlineEvt, surveys, queue, call, nsub, acked>>

\* The POST resolves with the 201 body: the survey is also saved locally.
SubmitResolve ==
    /\ sub = "created"
    /\ acked' = acked \cup {nsub}
    /\ SaveSurveyLocal(nsub)
    /\ sub' = "none"
    /\ UNCHANGED <<appVars, serverVars, online, onlineEvt, call, nsub>>

\* The POST fails (no answer, or an answer that is not OK): apiRequest
\* throws and submitSurvey's catch falls back to saveSurveyLocal.
SubmitCatch ==
    /\ sub \in {"posting", "created", "notfound"}
    /\ SaveSurveyLocal(nsub)
    /\ sub' = "none"
    /\ UNCHANGED <<appVars, serverVars, online, onlineEvt, call, nsub, acked>>

\* As SyncOfflineResponses, without the navigator.onLine test: a non-empty
\* queue is posted whatever the network state.
SyncOfflineResponsesAnyNetwork(c) ==
    /\ call[c].pc = "idle"
    /\ \A d \in 1..(c - 1) : call[d].pc # "idle"
    /\ call' = [call EXCEPT ![c] =
                  IF Len(queue) = 0
                  THEN [IdleCall EXCEPT !.pc = "noop"]
                  ELSE [IdleCall EXCEPT !.pc = "wait", !.batch = queue]]

\* syncOfflineResponses up to its await: nothing is sent when the queue is
\* empty or navigator.onLine is false, otherwise the whole queue is posted.
\* Invocations are numbered in the order they are made.
SyncOfflineResponses(c) ==
    /\ call[c].pc = "idle"
    /\ \A d \in 1..(c - 1) : call[d].pc # "idle"
    /\ call' = [call EXCEPT ![c] =
                  IF Len(queue) = 0 \/ ~online
                  THEN [IdleCall EXCEPT !.pc = "noop"]
                  ELSE [IdleCall EXCEPT !.pc = "wait", !.batch = queue]]

\* The 30-second interval of startSyncMonitoring.
Tick(c) ==
    /\ syncInterval
    /\ online /\ Len(queue) > 0
    /\ SyncOfflineResponses(c)
    /\ UNCHANGED <<restVars, serverVars, online, onlineEvt, surveys, queue, sub, nsub, acked>>

\* The click handler of the sync-now button.
Click(c) ==
    /\ SyncOfflineResponses(c)
    /\ UNCHANGED <<restVars, serverVars, online, onlineEvt, surveys, queue, sub, nsub, acked>>

\* navigator.onLine turns false. The flag follows the network interface, not
\* the reachability of API_CONFIG.BASE_URL (a localhost address): requests
\* in flight may still be answered.
GoOffline ==
    /\ online
    /\ online' = FALSE
    /\ UNCHANGED <<restVars, serverVars, onlineEvt, surveys, queue, call, sub, nsub, acked>>

\* navigator.onLine turns true and the 'online' event is queued.
GoOnline ==
    /\ ~online
    /\ online' = TRUE
    /\ onlineEvt' = TRUE
    /\ UNCHANGED <<restVars, serverVars, surveys, queue, call, sub, nsub, acked>>

\* The window 'online' handler: it syncs when the queue is not empty.
OnlineHandler(c) ==
    /\ onlineEvt
    /\ onlineEvt' = FALSE
    /\ IF Len(queue) > 0 THEN SyncOfflineResponses(c) ELSE call' = call
    /\ UNCHANGED <<restVars, serverVars, online, surveys, queue, sub, nsub, acked>>

\* The sync POST reaches the server and passes auth and route validation.
Deliver(c) ==
    /\ call[c].pc = "wait"
    /\ SyncStart(c, ClientUser, ToItems(call[c].batch))
    /\ UNCHANGED <<clientVars, restVars>>

\* As SyncResolve, with the queue cleared only when the answer's failed list
\* is empty.
SyncResolveKeepingFailed(c) ==
    /\ call[c].pc = "wait" /\ req[c].pc = "done"
    /\ queue' = IF req[c].failed = <<>> THEN <<>> ELSE queue
    /\ acked' = acked \cup Ids(call[c].batch)
    /\ call' = [call EXCEPT ![c].pc = "ok"]
    /\ UNCHANGED <<restVars, serverVars, online, onlineEvt, surveys, sub, nsub>>

\* The awaited apiRequest returns the server's answer: result.success is
\* true, so the queue is cleared.
SyncResolve(c) ==
    /\ call[c].pc = "wait" /\ req[c].pc = "done"
    /\ queue' = <<>>
    /\ acked' = acked \cup Ids(call[c].batch)
    /\ call' = [call EXCEPT ![c].pc = "ok"]
    /\ UNCHANGED <<restVars, serverVars, online, onlineEvt, surveys, sub, nsub>>

\* As SyncReject, with the queue cleared on the way out (clearSyncQueue in a
\* finally block).
SyncRejectClearing(c) ==
    /\ call[c].pc = "wait"
    /\ \E cause \in {"network", "status"} :
         /\ cause = "status" => req[c].pc = "idle"
         /\ call' = [call EXCEPT ![c].pc = "threw", ![c].error = cause]
    /\ queue' = <<>>
    /\ UNCHANGED <<restVars, serverVars, online, onlineEvt, surveys, sub, nsub, acked>>

\* The awaited apiRequest throws: fetch got no answer (at any point of the
\* exchange), or the server answered with a status that is not OK before
\* the controller ran. syncOfflineResponses logs and rethrows.
SyncReject(c) ==
    /\ call[c].pc = "wait"
    /\ \E cause \in {"network", "status"} :
         /\ cause = "status" => req[c].pc = "idle"
         /\ call' = [call EXCEPT ![c].pc = "threw", ![c].error = cause]
    /\ UNCHANGED <<restVars, serverVars, online, onlineEvt, surveys, queue, sub, nsub, acked>>

\* clearData, confirmed by the user: the stored surveys and the pending
\* queue are removed.
ClearData ==
    /\ surveys' = <<>>
    /\ queue' = <<>>
    /\ UNCHANGED <<restVars, serverVars, online, onlineEvt, call, sub, nsub, acked>>

NextClient ==
    \/ SubmitOffline
    \/ ClearData
    \/ SubmitPost
    \/ \E found \in BOOLEAN : SubmitResponse(found)
    \/ SubmitResolve
    \/ SubmitCatch
    \/ GoOffline
    \/ GoOnline
    \/ \E c \in ReqIds :
        \/ Tick(c)
        \/ Click(c)
        \/ OnlineHandler(c)
        \/ Deliver(c)
        \/ SyncFindOne(c)
        \/ SyncCreate(c)
        \/ SyncResolve(c)
        \/ SyncReject(c)

SpecClient == Init /\ [][NextClient]_vars

\* ------------------------------------------------------- automatic retry
\* AuthManager.handleLogin: the login request succeeds, the token is kept
\* and the application is shown. TeamApp.init is not called.
HandleLogin ==
    /\ ~authToken
    /\ authToken' = TRUE
    /\ UNCHANGED <<serverVars, clientVars, tplVars, syncInterval, formVars, dashVars, devVars, storeVars>>

\* A syncOfflineResponses call has settled and the server has answered its
\* request, if it got one: nothing of the invocation remains.
SyncReturn(c) ==
    /\ call[c].pc \in {"noop", "ok", "threw"}
    /\ req[c].pc \in {"idle", "done"}
    /\ call' = [call EXCEPT ![c] = IdleCall]
    /\ req' = [req EXCEPT ![c] = IdleReq]
    /\ UNCHANGED <<restVars, db, online, onlineEvt, surveys, queue, sub, nsub, acked>>

\* The page has loaded, with or without a stored token: DOMContentLoaded
\* calls TeamApp.init, which starts the sync interval, only with a token.
InitLive ==
    /\ db = <<>>
    /\ req = [r \in ReqIds |-> IdleReq]
    /\ online = TRUE
    /\ onlineEvt = FALSE
    /\ surveys = <<>>
    /\ queue = <<>>
    /\ call = [c \in ReqIds |-> IdleCall]
    /\ sub = "none"
    /\ nsub = 0
    /\ acked = {}
    /\ templates = InitialTemplates
    /\ tdel = IdleDel
    /\ tsub = IdleSub
    /\ tupd = IdleUpd
    /\ authToken \in BOOLEAN
    /\ syncInterval = authToken
    /\ currentRatings = <<>>
    /\ topProblems = <<>>
    /\ responses = <<>>
    /\ processedData = NotComputed
    /\ insights = NotComputed
    /\ deviceId = ClientDevice
    /\ generated = 0
    /\ entry = [k \in StorageKeys |-> "written"]
    /\ got = NotRead

NextLive ==
    \/ HandleLogin
    \/ SubmitOffline
    \/ GoOffline
    \/ GoOnline
    \/ \E c \in ReqIds :
        \/ Tick(c)
        \/ OnlineHandler(c)
        \/ Deliver(c)
        \/ SyncFindOne(c)
        \/ SyncCreate(c)
        \/ SyncResolve(c)
        \/ SyncReject(c)
        \/ SyncReturn(c)

\* The interval timer and the event loop keep running, a request that was
\* issued is sent, the server finishes what it started and an answer that
\* arrived is handled. Nothing obliges a request to fail, the network state
\* to change or the user to act.
FairLive ==
    \A c \in ReqIds :
        /\ WF_vars(Tick(c))
        /\ WF_vars(OnlineHandler(c))
        /\ WF_vars(Deliver(c))
        /\ WF_vars(SyncFindOne(c))
        /\ WF_vars(SyncCreate(c))
        /\ WF_vars(SyncResolve(c))
        /\ WF_vars(SyncReturn(c))

SpecLive == InitLive /\ [][NextLive]_vars /\ FairLive

\* ------------------------------------------------------ the device id
\* As Logout, with the whole store cleared (localStorage.clear()).
LogoutClearingStorage ==
    /\ authToken
    /\ authToken' = FALSE
    /\ deviceId' = NoValue
    /\ surveys' = <<>>
    /\ queue' = <<>>
    /\ UNCHANGED <<serverVars, online, onlineEvt, call, sub, nsub, acked,
                   tplVars, syncInterval, formVars, dashVars, generated, storeVars>>

\* logout: the token and the user data are removed from the store and the
\* auth modal is shown.
Logout ==
    /\ authToken
    /\ authToken' = FALSE
    /\ UNCHANGED <<serverVars, clientVars, tplVars, syncInterval, formVars, dashVars, devVars, storeVars>>

\* A first page load on the device: no token, nothing in the store.
InitDevice ==
    /\ db = <<>>
    /\ req = [r \in ReqIds |-> IdleReq]
    /\ online = TRUE
    /\ onlineEvt = FALSE
    /\ surveys = <<>>
    /\ queue = <<>>
    /\ call = [c \in ReqIds |-> IdleCall]
    /\ sub = "none"
    /\ nsub = 0
    /\ acked = {}
    /\ templates = InitialTemplates
    /\ tdel = IdleDel
    /\ tsub = IdleSub
    /\ tupd = IdleUpd
    /\ authToken = FALSE
    /\ syncInterval = FALSE
    /\ currentRatings = <<>>
    /\ topProblems = <<>>
    /\ responses = <<>>
    /\ processedData = NotComputed
    /\ insights = NotComputed
    /\ deviceId = NoValue
    /\ generated = 0
    /\ entry = [k \in StorageKeys |-> "written"]
    /\ got = NotRead

\* The user logs in and out, submits, syncs with the button and clears the
\* data; the sync interval was not started.
NextDevice ==
    \/ HandleLogin
    \/ Logout
    \/ SubmitOffline
    \/ ClearData
    \/ SubmitPost
    \/ \E found \in BOOLEAN : SubmitResponse(found)
    \/ SubmitResolve
    \/ SubmitCatch
    \/ GoOffline
    \/ GoOnline
    \/ \E c \in ReqIds :
        \/ Click(c)
        \/ OnlineHandler(c)
        \/ Deliver(c)
        \/ SyncFindOne(c)
        \/ SyncCreate(c)
        \/ SyncResolve(c)
        \/ SyncReject(c)

SpecDevice == InitDevice /\ [][NextDevice]_vars

\* ------------------------------------------------- reading the store
\* Number of surveys in the store when it is read.
MaxStored == 3

\* JSON.stringify of a list: the text, whole as it was written.
JSONStringify(list) == [list |-> list, whole |-> TRUE]

\* JSON.parse: the list of a whole text; a text that was cut short or
\* overwritten is not JSON and parse throws a SyntaxError.
JSONParse(text) ==
    IF text.whole THEN [kind |-> "list", value |-> text.list]
    ELSE [kind |-> "SyntaxError", value |-> <<>>]

\* The list last written under a key.
Written(key) == IF key = SURVEYS THEN surveys ELSE queue

\* JSON.parse(localStorage.getItem(key) || '[]'): getItem returns null for
\* a missing entry, for which the text '[]' is parsed.
ParseItem(key) ==
    IF entry[key] = "missing" THEN JSONParse(JSONStringify(<<>>))
    ELSE JSONParse([list |-> Written(key), whole |-> entry[key] = "written"])

\* getAllSurveys
GetAllSurveys ==
    /\ got = NotRead
    /\ got' = [op |-> "getAllSurveys", kind |-> ParseItem(SURVEYS).kind,
               value |-> ParseItem(SURVEYS).value]
    /\ UNCHANGED <<serverVars, clientVars, tplVars, sessVars, formVars, dashVars,
                   devVars, entry>>

\* getPendingSyncQueue
GetPendingSyncQueue ==
    /\ got = NotRead
    /\ got' = [op |-> "getPendingSyncQueue", kind |-> ParseItem(PENDING_SYNC).kind,
               value |-> ParseItem(PENDING_SYNC).value]
    /\ UNCHANGED <<serverVars, clientVars, tplVars, sessVars, formVars, dashVars,
                   devVars, entry>>

\* getPendingSyncCount: getPendingSyncQueue().length, whose list stands for
\* the number here.
GetPendingSyncCount ==
    /\ got = NotRead
    /\ got' = [op |-> "getPendingSyncCount", kind |-> ParseItem(PENDING_SYNC).kind,
               value |-> ParseItem(PENDING_SYNC).value]
    /\ UNCHANGED <<serverVars, clientVars, tplVars, sessVars, formVars, dashVars,
                   devVars, entry>>

\* The surveys 1..k as saveSurveyLocal stored them.
StoredLists ==
    UNION {[1..k -> {CompleteSurvey(n, on) : n \in 1..MaxStored, on \in BOOLEAN}] :
              k \in 0..MaxStored}

\* The pending surveys of a list.
IsPending(s) == s.syncStatus = "pending"

\* The store as a page load finds it: surveys 1..k, the queue holding the
\* pending ones or nothing, and each entry whole, missing, or present with
\* a text that is not what was written.
InitStore ==
    /\ db = <<>>
    /\ req = [r \in ReqIds |-> IdleReq]
    /\ online = TRUE
    /\ onlineEvt = FALSE
    /\ deviceId = ClientDevice
    /\ generated = 0
    /\ surveys \in {l \in StoredLists : \A i \in 1..Len(l) : l[i].id = i}
    /\ queue \in {<<>>, SelectSeq(surveys, IsPending)}
    /\ call = [c \in ReqIds |-> IdleCall]
    /\ sub = "none"
    /\ nsub = Len(surveys)
    /\ acked = {}
    /\ templates = InitialTemplates
    /\ tdel = IdleDel
    /\ tsub = IdleSub
    /\ tupd = IdleUpd
    /\ authToken = TRUE
    /\ syncInterval = TRUE
    /\ currentRatings = <<>>
    /\ topProblems = <<>>
    /\ responses = <<>>
    /\ processedData = NotComputed
    /\ insights = NotComputed
    /\ entry \in [StorageKeys -> {"written", "missing", "corrupted"}]
    /\ \A k \in StorageKeys : entry[k] = "missing" => Written(k) = <<>>
    /\ got = NotRead

NextStore ==
    \/ GetAllSurveys
    \/ GetPendingSyncQueue
    \/ GetPendingSyncCount

SpecStore == InitStore /\ [][NextStore]_vars

\* --------------------------------------------------------------- templates
\* deleteTemplate up to its second await: SurveyTemplate.findOne({_id,
\* team: req.user.team}) has returned, 404 is sent when it found nothing.
DeleteFind(user, id) ==
    /\ tdel.pc = "idle"
    /\ tdel' = [pc |-> IF \E t \in templates : t.id = id /\ t.team = user.team
                       THEN "count" ELSE "notfound",
                user |-> user, id |-> id]
    /\ UNCHANGED <<serverVars, clientVars, templates, tsub, tupd, sessVars, formVars, dashVars, devVars, storeVars>>

\* SurveyResponse.countDocuments({surveyTemplate: id}) has returned: 400 is
\* sent when responses exist, otherwise findByIdAndDelete is issued.
DeleteCount ==
    /\ tdel.pc = "count"
    /\ tdel' = [tdel EXCEPT !.pc =
                  IF \E i \in 1..Len(db) : db[i].surveyTemplate = tdel.id
                  THEN "refused" ELSE "delete"]
    /\ UNCHANGED <<serverVars, clientVars, templates, tsub, tupd, sessVars, formVars, dashVars, devVars, storeVars>>

\* findByIdAndDelete has returned: the template is gone.
DeleteRemove ==
    /\ tdel.pc = "delete"
    /\ templates' = {t \in templates : t.id # tdel.id}
    /\ tdel' = [tdel EXCEPT !.pc = "deleted"]
    /\ UNCHANGED <<serverVars, clientVars, tsub, tupd, sessVars, formVars, dashVars, devVars, storeVars>>

\* submitResponse of an API caller up to its second await: the template is
\* looked up by id, the caller's team and status 'active'; 404 when absent.
ApiSubmitFind(user, tpl) ==
    /\ tsub.pc = "idle"
    /\ tsub' = [pc |-> IF \E t \in templates : /\ t.id = tpl
                                               /\ t.team = user.team
                                               /\ t.status = "active"
                       THEN "create" ELSE "notfound",
                user |-> user, tpl |-> tpl]
    /\ UNCHANGED <<serverVars, clientVars, templates, tdel, tupd, sessVars, formVars, dashVars, devVars, storeVars>>

\* SurveyResponse.create() of submitResponse has returned.
ApiSubmitCreate ==
    /\ tsub.pc = "create"
    /\ db' = Append(db, [id |-> Len(db) + 1, deviceId |-> "devS",
                         startTime |-> "t1", surveyTemplate |-> tsub.tpl,
                         collectedBy |-> tsub.user.id, team |-> tsub.user.team,
                         syncStatus |-> "synced", syncHistory |-> <<>>,
                         localId |-> 0, by |-> 0, pos |-> 0])
    /\ tsub' = [tsub EXCEPT !.pc = "created"]
    /\ UNCHANGED <<req, clientVars, templates, tdel, tupd, sessVars, formVars, dashVars, devVars, storeVars>>

\* One deleteTemplate, one submitResponse and one syncResponses request,
\* interleaved at their awaits.
NextTpl ==
    \/ \E user \in Users, id \in TemplateIds : DeleteFind(user, id)
    \/ DeleteCount
    \/ DeleteRemove
    \/ \E user \in Users, tpl \in TemplateIds : ApiSubmitFind(user, tpl)
    \/ ApiSubmitCreate
    \/ ApiSync(1)
    \/ SyncFindOne(1)
    \/ SyncCreate(1)

SpecTpl == Init /\ [][NextTpl]_vars

\* ------------------------------------------------- template updates
\* The request bodies: name, description and questions pass
\* templateValidation, which says nothing about other fields.
TemplateBodies ==
    [team : {NoValue, "teamA", "teamB"}, createdBy : {NoValue, "u1", "u2"},
     status : {NoValue, "archived"}]

\* createTemplate: the body's fields, then createdBy and team from the
\* authenticated caller; status is 'draft' unless the body gives one. owner
\* and creator record the caller the template was created for.
CreateTemplate(user, id, body) ==
    /\ \A t \in templates : t.id # id
    /\ templates' = templates \cup
          {[id |-> id, team |-> user.team, createdBy |-> user.id,
            status |-> IF body.status = NoValue THEN "draft" ELSE body.status,
            owner |-> user.team, creator |-> user.id]}
    /\ UNCHANGED <<serverVars, clientVars, tdel, tsub, tupd, sessVars, formVars, dashVars,
                   devVars, storeVars>>

\* updateTemplate up to its second await: the template is looked up by id
\* and the caller's team; 404 when absent.
UpdateFind(user, id, body) ==
    /\ tupd.pc \in {"idle", "notfound", "updated"}
    /\ tupd' = [pc |-> IF \E t \in templates : t.id = id /\ t.team = user.team
                       THEN "update" ELSE "notfound",
                user |-> user, id |-> id, body |-> body]
    /\ UNCHANGED <<serverVars, clientVars, templates, tdel, tsub, sessVars, formVars,
                   dashVars, devVars, storeVars>>

\* The document after findByIdAndUpdate(id, req.body): every schema path the
\* body holds is set to the body's value.
Updated(t, body) ==
    [t EXCEPT !.team = IF body.team = NoValue THEN @ ELSE body.team,
              !.createdBy = IF body.createdBy = NoValue THEN @ ELSE body.createdBy,
              !.status = IF body.status = NoValue THEN @ ELSE body.status]

\* findByIdAndUpdate has returned.
UpdateApply ==
    /\ tupd.pc = "update"
    /\ templates' = {IF t.id = tupd.id THEN Updated(t, tupd.body) ELSE t : t \in templates}
    /\ tupd' = [tupd EXCEPT !.pc = "updated"]
    /\ UNCHANGED <<serverVars, clientVars, tdel, tsub, sessVars, formVars, dashVars,
                   devVars, storeVars>>

\* An empty SurveyTemplate collection.
InitUpd ==
    /\ db = <<>>
    /\ req = [r \in ReqIds |-> IdleReq]
    /\ online = TRUE
    /\ onlineEvt = FALSE
    /\ surveys = <<>>
    /\ queue = <<>>
    /\ call = [c \in ReqIds |-> IdleCall]
    /\ sub = "none"
    /\ nsub = 0
    /\ acked = {}
    /\ templates = {}
    /\ tdel = IdleDel
    /\ tsub = IdleSub
    /\ tupd = IdleUpd
    /\ authToken = TRUE
    /\ syncInterval = TRUE
    /\ currentRatings = <<>>
    /\ topProblems = <<>>
    /\ responses = <<>>
    /\ processedData = NotComputed
    /\ insights = NotComputed
    /\ deviceId = ClientDevice
    /\ generated = 0
    /\ entry = [k \in StorageKeys |-> "written"]
    /\ got = NotRead

\* Templates are created and updated by the users of both teams.
NextUpd ==
    \/ \E user \in Users, id \in TemplateIds, body \in TemplateBodies :
          CreateTemplate(user, id, body)
    \/ \E user \in Users, id \in TemplateIds, body \in TemplateBodies :
          UpdateFind(user, id, body)
    \/ UpdateApply

SpecUpd == InitUpd /\ [][NextUpd]_vars

\* ------------------------------------------------------------- survey form
\* Four of surveyData.problemCategories, and the values of the rating scale.
Categories == {"A", "B", "C", "D"}
MaxRating == 5
Ratings == 1..MaxRating
\* slice(0, 3)
TopCount == 3

\* Array.prototype.sort with (a, b) => b.rating - a.rating is stable: an
\* entry goes behind every entry whose rating is not lower.
RECURSIVE InsertByRating(_, _)
InsertByRating(sorted, p) ==
    IF sorted = <<>> THEN <<p>>
    ELSE IF sorted[1].rating >= p.rating
         THEN <<sorted[1]>> \o InsertByRating(Tail(sorted), p)
         ELSE <<p>> \o sorted

RECURSIVE SortByRating(_)
SortByRating(entries) ==
    IF entries = <<>> THEN <<>>
    ELSE InsertByRating(SortByRating(SubSeq(entries, 1, Len(entries) - 1)),
                        entries[Len(entries)])

\* As InsertByRating, going before the entries of the same rating.
RECURSIVE InsertBeforeEqual(_, _)
InsertBeforeEqual(sorted, p) ==
    IF sorted = <<>> THEN <<p>>
    ELSE IF sorted[1].rating > p.rating
         THEN <<sorted[1]>> \o InsertBeforeEqual(Tail(sorted), p)
         ELSE <<p>> \o sorted

RECURSIVE SortTiesReversed(_)
SortTiesReversed(entries) ==
    IF entries = <<>> THEN <<>>
    ELSE InsertBeforeEqual(SortTiesReversed(SubSeq(entries, 1, Len(entries) - 1)),
                           entries[Len(entries)])

Rated(entries) == SelectSeq(entries, LAMBDA p : p.rating > 0)

Slice(seq, n) == SubSeq(seq, 1, IF Len(seq) < n THEN Len(seq) ELSE n)

\* As GetTopProblems, sorted by a sort that is not stable (ties come out in
\* reverse entry order).
GetTopProblemsTiesReversed(entries) ==
    Slice(SortTiesReversed(Rated(entries)), TopCount)

\* getTopProblems over Object.entries(currentRatings), which lists the
\* categories in the order they were first rated.
GetTopProblems(entries) ==
    Slice(SortByRating(Rated(entries)), TopCount)

\* currentRatings[category] = value: a category rated before keeps its place.
SetRating(entries, category, value) ==
    IF \E i \in 1..Len(entries) : entries[i].category = category
    THEN [i \in 1..Len(entries) |->
             IF entries[i].category = category
             THEN [category |-> category, rating |-> value] ELSE entries[i]]
    ELSE Append(entries, [category |-> category, rating |-> value])

\* handleRatingSelect: the rating is stored and the top problems shown are
\* recomputed.
HandleRatingSelect(category, value) ==
    /\ currentRatings' = SetRating(currentRatings, category, value)
    /\ topProblems' = GetTopProblems(currentRatings')
    /\ UNCHANGED <<serverVars, clientVars, tplVars, sessVars, dashVars, devVars, storeVars>>

\* resetSurveyForm: the ratings are dropped and the display recomputed.
ResetSurveyForm ==
    /\ currentRatings # <<>>
    /\ currentRatings' = <<>>
    /\ topProblems' = GetTopProblems(currentRatings')
    /\ UNCHANGED <<serverVars, clientVars, tplVars, sessVars, dashVars, devVars, storeVars>>

NextForm ==
    \/ \E category \in Categories, value \in Ratings :
          HandleRatingSelect(category, value)
    \/ ResetSurveyForm

SpecForm == Init /\ [][NextForm]_vars

\* --------------------------------------------------------------- dashboard
\* Number of stored responses the dashboard aggregates.
MaxResponses == 2

\* The categories and rating values of the aggregated responses, and the
\* values found in the stored rating and option fields: what the widgets put
\* in dataset.value, and ratings outside 1..5, which processSurveyData
\* tests for.
DashCategories == {"A", "B"}
DashRatings == {1, MaxRating}
RatingValues == {NoValue, "1", "5", "7"}
LikelihoodValues == {NoValue, "3", "0"}
InterestValues == {NoValue, "yes", "no"}

\* The states of currentRatings over DashCategories.
RatingLists ==
    {<<>>}
    \cup {<<[category |-> c, rating |-> r]>> : c \in DashCategories, r \in DashRatings}
    \cup {e \in {<<[category |-> c, rating |-> r], [category |-> d, rating |-> q]>> :
                     c \in DashCategories, d \in DashCategories,
                     r \in DashRatings, q \in DashRatings} :
             e[1].category # e[2].category}

\* collectSurveyData: the ratings, the top problems computed from them and
\* the selected options ('undefined' when nothing is selected).
CollectSurveyData(entries, sat, like, interested) ==
    [problemRatings |-> entries, topProblems |-> GetTopProblems(entries),
     satisfactionRating |-> sat, likelihoodRating |-> like,
     interestedInTrying |-> interested]

SurveyInputs ==
    {CollectSurveyData(e, s, l, i) :
        e \in RatingLists, s \in RatingValues, l \in LikelihoodValues,
        i \in InterestValues}

ResponseLists == UNION {[1..k -> SurveyInputs] : k \in 0..MaxResponses}

\* parseInt of a one-digit string.
ParseInt(str) == CHOOSE n \in 0..9 : ToString(n) = str

RECURSIVE SumSeq(_)
SumSeq(seq) == IF seq = <<>> THEN 0 ELSE seq[1] + SumSeq(Tail(seq))

\* Number.prototype.toFixed(1) of n / d: the nearest tenth, the larger one
\* when two are equally near (for d < 20 such a quotient is a multiple of a
\* quarter, which a double holds exactly).
ToFixed1(n, d) ==
    LET tenths == (20 * n + d) \div (2 * d)
    IN ToString(tenths \div 10) \o "." \o ToString(tenths % 10)

\* The percentage with the fraction dropped instead of rounded.
PercentFloor(n, d) == ToString((100 * n) \div d) \o "%"

\* Math.round((n / d) * 100) + '%': the nearest integer, the larger one when
\* two are equally near (for d <= 10 the product is half-way only when d = 8,
\* where n / 8 and its product with 100 are exact in a double).
Percent(n, d) == ToString((200 * n + d) \div (2 * d)) \o "%"

\* The entries of a response's problemRatings with rating > 0.
RatedEntries(response) == Rated(response.problemRatings)

\* 1 when the response rates category c above 0 (lines 1872-1875).
RatedIn(response, c) ==
    IF \E k \in 1..Len(RatedEntries(response)) : RatedEntries(response)[k].category = c
    THEN 1 ELSE 0

\* The number of entries of the response's topProblems naming c.
TopIn(response, c) ==
    Cardinality({k \in 1..Len(response.topProblems) :
                    response.topProblems[k].category = c})

CategoriesOf(entries) == [k \in 1..Len(entries) |-> entries[k].category]

\* The keys of an object in the order they were first assigned.
RECURSIVE KeyOrder(_)
KeyOrder(seq) ==
    IF seq = <<>> THEN <<>>
    ELSE LET before == KeyOrder(SubSeq(seq, 1, Len(seq) - 1))
         IN IF \E i \in 1..Len(before) : before[i] = seq[Len(seq)]
            THEN before ELSE Append(before, seq[Len(seq)])

RECURSIVE TopProblemKeys(_)
TopProblemKeys(rs) ==
    IF rs = <<>> THEN <<>>
    ELSE CategoriesOf(rs[1].topProblems) \o TopProblemKeys(Tail(rs))

RECURSIVE DistributionKeys(_)
DistributionKeys(rs) ==
    IF rs = <<>> THEN <<>>
    ELSE CategoriesOf(RatedEntries(rs[1])) \o CategoriesOf(rs[1].topProblems)
            \o DistributionKeys(Tail(rs))

\* Object.entries(counts).forEach with count > maxCount: the first key, in
\* key order, holding the highest count above the starting maximum.
RECURSIVE FirstMax(_, _, _)
FirstMax(keys, counts, best) ==
    IF keys = <<>> THEN best
    ELSE IF counts[keys[1]] > best.maxCount
         THEN FirstMax(Tail(keys), counts,
                       [maxCount |-> counts[keys[1]], topProblem |-> keys[1]])
         ELSE FirstMax(Tail(keys), counts, best)

\* The histogram that counts a rating outside 1..5 in a bucket of its own.
RECURSIVE HistogramUnchecked(_)
HistogramUnchecked(values) ==
    IF values = <<>> THEN [b \in Ratings |-> 0]
    ELSE LET hist == HistogramUnchecked(SubSeq(values, 1, Len(values) - 1))
             value == values[Len(values)]
         IN IF value = NoValue THEN hist
            ELSE [k \in DOMAIN hist \cup {ParseInt(value)} |->
                     (IF k \in DOMAIN hist THEN hist[k] ELSE 0)
                     + (IF k = ParseInt(value) THEN 1 ELSE 0)]

\* The histogram of a rating field, given the field's value in each
\* response: seeded with 0 for the keys 1..5, then for each response whose
\* field is set, the bucket of the parsed rating is incremented when the
\* rating is within 1..5.
RECURSIVE Histogram(_)
Histogram(values) ==
    IF values = <<>> THEN [b \in Ratings |-> 0]
    ELSE LET hist == Histogram(SubSeq(values, 1, Len(values) - 1))
             value == values[Len(values)]
         IN IF value = NoValue THEN hist
            ELSE IF ParseInt(value) >= 1 /\ ParseInt(value) <= MaxRating
                 THEN [hist EXCEPT ![ParseInt(value)] = @ + 1]
                 ELSE hist

NullResult == [kind |-> "null"]

\* processSurveyData: null for an empty list, otherwise the processedData
\* object built by the forEach over the responses and the final
\* calculations. A count of 0 in problemDistribution or topProblems stands
\* for a key the object does not have.
ProcessSurveyData(rs) ==
    IF Len(rs) = 0 THEN NullResult
    ELSE
    LET problemDistribution ==
            [c \in DashCategories |->
                SumSeq([i \in 1..Len(rs) |-> RatedIn(rs[i], c) + TopIn(rs[i], c)])]
        tops ==
            [c \in DashCategories |->
                SumSeq([i \in 1..Len(rs) |-> TopIn(rs[i], c)])]
        totalSeverity ==
            SumSeq([i \in 1..Len(rs) |->
                SumSeq([k \in 1..Len(RatedEntries(rs[i])) |->
                           RatedEntries(rs[i])[k].rating])])
        severityCount == SumSeq([i \in 1..Len(rs) |-> Len(RatedEntries(rs[i]))])
        yes == Cardinality({i \in 1..Len(rs) : rs[i].interestedInTrying = "yes"})
        no == Cardinality({i \in 1..Len(rs) :
                              rs[i].interestedInTrying \notin {NoValue, "yes"}})
        fromTop == FirstMax(KeyOrder(TopProblemKeys(rs)), tops,
                            [maxCount |-> 0, topProblem |-> ""])
        best == IF fromTop.topProblem = ""
                THEN FirstMax(KeyOrder(DistributionKeys(rs)), problemDistribution, fromTop)
                ELSE fromTop
    IN [kind |-> "object",
        totalResponses |-> Len(rs),
        problemDistribution |-> problemDistribution,
        topProblems |-> tops,
        satisfaction |-> Histogram([i \in 1..Len(rs) |-> rs[i].satisfactionRating]),
        adoptionLikelihood |-> Histogram([i \in 1..Len(rs) |-> rs[i].likelihoodRating]),
        earlyAdopter |-> [yes |-> yes, no |-> no],
        avgProblemSeverity |->
            IF severityCount > 0 THEN ToFixed1(totalSeverity, severityCount) ELSE "0.0",
        topProblem |-> IF best.topProblem = "" THEN "No data" ELSE best.topProblem,
        solutionInterest |-> IF yes + no > 0 THEN Percent(yes, yes + no) ELSE "0%"]

\* A quotient interpolated into an insight through Math.round: division
\* by zero does not raise, 0 / 0 is NaN and n / 0 is Infinity for n > 0.
RoundedRate(n, d) ==
    IF d = 0 THEN (IF n = 0 THEN "NaN" ELSE "Infinity")
    ELSE ToString((200 * n + d) \div (2 * d))

\* The sum of the histogram's counts and of rating * count.
HistogramTotal(hist) == SumSeq([b \in Ratings |-> hist[b]])
HistogramWeighted(hist) == SumSeq([b \in Ratings |-> b * hist[b]])

\* calculateAverageSatisfaction / calculateAverageLikelihood compared with
\* a limit: the average is 0 when the histogram is empty.
AverageAtMost(hist, limit) ==
    IF HistogramTotal(hist) = 0 THEN 0 <= limit
    ELSE HistogramWeighted(hist) <= limit * HistogramTotal(hist)

AverageAtLeast(hist, limit) ==
    IF HistogramTotal(hist) = 0 THEN 0 >= limit
    ELSE HistogramWeighted(hist) >= limit * HistogramTotal(hist)

\* analyzeProblems: the share of the top problem and the satisfaction tier.
AnalyzeProblems(data) ==
    LET topProblemCount ==
            IF data.topProblem \in DOMAIN data.topProblems
            THEN data.topProblems[data.topProblem] ELSE 0
    IN [percentage |-> RoundedRate(topProblemCount, data.totalResponses),
        satisfaction |-> IF AverageAtMost(data.satisfaction, 2) THEN "inadequate"
                         ELSE IF AverageAtMost(data.satisfaction, 3) THEN "moderate"
                         ELSE "satisfied"]

\* analyzeSolutions: the adoption tier and the early-adopter rate, which is
\* divided by yes + no without a test of the sum.
AnalyzeSolutions(data) ==
    [adoption |-> IF AverageAtLeast(data.adoptionLikelihood, 4) THEN "strong"
                  ELSE IF AverageAtLeast(data.adoptionLikelihood, 3) THEN "solid"
                  ELSE "lower",
     earlyAdopterRate |-> RoundedRate(data.earlyAdopter.yes,
                                      data.earlyAdopter.yes + data.earlyAdopter.no)]

\* analyzeMarket: the conversion rate over all responses.
AnalyzeMarket(data) ==
    [conversionRate |-> RoundedRate(data.earlyAdopter.yes, data.totalResponses)]

EmptyInsights == [kind |-> "empty"]

\* generateInsights: the fixed texts for no data, otherwise the analyses.
GenerateInsights(surveyData) ==
    IF surveyData.kind = "null" \/ surveyData.totalResponses = 0 THEN EmptyInsights
    ELSE [kind |-> "insights",
          problemAnalysis |-> AnalyzeProblems(surveyData),
          solutionPotential |-> AnalyzeSolutions(surveyData),
          marketOpportunity |-> AnalyzeMarket(surveyData)]

\* loadDashboard's computation: processSurveyData is applied to the list read
\* from the store and, for a non-empty list, updateDashboardInsights
\* generates the insights from its result.
CallProcessSurveyData ==
    /\ processedData = NotComputed
    /\ processedData' = ProcessSurveyData(responses)
    /\ insights' = IF Len(responses) > 0
                   THEN GenerateInsights(ProcessSurveyData(responses))
                   ELSE insights
    /\ UNCHANGED <<serverVars, clientVars, tplVars, sessVars, formVars, responses, devVars, storeVars>>

\* The store holds any list of up to MaxResponses collected surveys.
InitDash ==
    /\ db = <<>>
    /\ req = [r \in ReqIds |-> IdleReq]
    /\ online = TRUE
    /\ onlineEvt = FALSE
    /\ surveys = <<>>
    /\ queue = <<>>
    /\ call = [c \in ReqIds |-> IdleCall]
    /\ sub = "none"
    /\ nsub = 0
    /\ acked = {}
    /\ templates = InitialTemplates
    /\ tdel = IdleDel
    /\ tsub = IdleSub
    /\ tupd = IdleUpd
    /\ authToken = TRUE
    /\ syncInterval = TRUE
    /\ currentRatings = <<>>
    /\ topProblems = <<>>
    /\ responses \in ResponseLists
    /\ processedData = NotComputed
    /\ insights = NotComputed
    /\ deviceId = ClientDevice
    /\ generated = 0
    /\ entry = [k \in StorageKeys |-> "written"]
    /\ got = NotRead

NextDash == CallProcessSurveyData

SpecDash == InitDash /\ [][NextDash]_vars

\* ------------------------------------------------------------------------
\* The early-adopter rate over larger response sets: the store holds up to
\* MaxInterest surveys that differ in the interestedInTrying answer only.
MaxInterest == 10

InterestOnly == {CollectSurveyData(<<>>, NoValue, NoValue, i) : i \in InterestValues}

InitRate ==
    /\ db = <<>>
    /\ req = [r \in ReqIds |-> IdleReq]
    /\ online = TRUE
    /\ onlineEvt = FALSE
    /\ surveys = <<>>
    /\ queue = <<>>
    /\ call = [c \in ReqIds |-> IdleCall]
    /\ sub = "none"
    /\ nsub = 0
    /\ acked = {}
    /\ templates = InitialTemplates
    /\ tdel = IdleDel
    /\ tsub = IdleSub
    /\ tupd = IdleUpd
    /\ authToken = TRUE
    /\ syncInterval = TRUE
    /\ currentRatings = <<>>
    /\ topProblems = <<>>
    /\ responses \in UNION {[1..k -> InterestOnly] : k \in 0..MaxInterest}
    /\ processedData = NotComputed
    /\ insights = NotComputed
    /\ deviceId = ClientDevice
    /\ generated = 0
    /\ entry = [k \in StorageKeys |-> "written"]
    /\ got = NotRead

NextRate == CallProcessSurveyData

SpecRate == InitRate /\ [][NextRate]_vars

\* ------------------------------------------------------------------ claims
SameKey(a, b) == a.deviceId = b.deviceId /\ a.startTime = b.startTime

Records == 1..Len(db)

\* The documents request r created.
CreatedBy(r) == {i \in Records : db[i].by = r}

\* Request b carried the batch of request a and arrived after a was answered.
Resubmitted(a, b) ==
    /\ req[a].pc = "done" /\ req[b].pc = "done"
    /\ a \in req[b].after
    /\ req[a].batch = req[b].batch

\* failed holds an 'already synced' entry for position p of r's batch, with
\* the device id the item carried.
ReportedSynced(r, p) ==
    \E k \in 1..Len(req[r].failed) :
        req[r].failed[k] = [deviceId |-> req[r].batch[p].deviceId,
                            error |-> ALREADY_SYNCED, pos |-> p]

ReportedInvalid(r, p) ==
    \E k \in 1..Len(req[r].failed) :
        req[r].failed[k] = [deviceId |-> req[r].batch[p].deviceId,
                            error |-> VALIDATION_FAILED, pos |-> p]

\* A document was created for position p of r's batch and its id returned.
Persisted(r, p) ==
    \E i \in CreatedBy(r) :
        /\ db[i].pos = p
        /\ \E k \in 1..Len(req[r].successful) : req[r].successful[k] = db[i].id

\* C1: when a batch is submitted again after the first submission was
\* answered, the second call persists nothing, every item the first call
\* persisted is reported by the second as 'Response already synced', and the
\* two calls together leave exactly one document for each such item.
C1_ResubmitIdempotent ==
    \A a, b \in ReqIds :
        Resubmitted(a, b) =>
            /\ req[b].successful = <<>>
            /\ CreatedBy(b) = {}
            /\ \A p \in 1..Len(req[a].batch) :
                 Persisted(a, p) =>
                     /\ ReportedSynced(b, p)
                     /\ Cardinality({i \in CreatedBy(a) \cup CreatedBy(b) :
                                        SameKey(db[i], req[a].batch[p])}) = 1

C1_Witness ==
    \E a, b \in ReqIds :
        /\ Resubmitted(a, b)
        /\ Len(req[a].batch) = 2
        /\ Persisted(a, 1) /\ Persisted(a, 2)

\* C2: at most one document is ever stored for a (deviceId, startTime) key,
\* also when the sync requests run concurrently.
C2_OneRecordPerKey ==
    \A i, j \in Records : i # j => ~SameKey(db[i], db[j])

\* Position p of r's batch matched a stored document when it was looked up,
\* under one-request-at-a-time execution: a document stored before the
\* request arrived, or one the request created for an earlier position.
Matched(r, p) ==
    \E i \in Records :
        /\ SameKey(db[i], req[r].batch[p])
        /\ \/ i <= req[r].seen
           \/ db[i].by = r /\ db[i].pos < p

\* C3 as claimed: in an answered batch every matching item is reported in
\* failed with its device id and every non-matching item is persisted.
C3_AsClaimed ==
    \A r \in ReqIds :
        req[r].pc = "done" =>
            \A p \in 1..Len(req[r].batch) :
                /\ Matched(r, p) => ReportedSynced(r, p) /\ ~Persisted(r, p)
                /\ ~Matched(r, p) => Persisted(r, p)

\* C3, amended: in an answered batch every matching item is reported in
\* failed as already synced with its device id and is not persisted; every
\* non-matching item the schema accepts is persisted; a non-matching item
\* the schema rejects is reported in failed with the validation error; each
\* item has exactly one outcome, so the batch is never aborted. A batch of 3
\* whose only matching item is the second, the others being acceptable,
\* yields 2 successful ids and 1 failed entry, the one for item 2.
C3_PartialBatch ==
    \A r \in ReqIds :
        req[r].pc = "done" =>
            /\ Len(req[r].successful) + Len(req[r].failed) = Len(req[r].batch)
            /\ \A p \in 1..Len(req[r].batch) :
                /\ Matched(r, p) => ReportedSynced(r, p) /\ ~Persisted(r, p)
                /\ ~Matched(r, p) /\ req[r].batch[p].castable => Persisted(r, p)
                /\ ~Matched(r, p) /\ ~req[r].batch[p].castable =>
                       ReportedInvalid(r, p) /\ ~Persisted(r, p)
            /\ ( /\ Len(req[r].batch) = 3
                 /\ Matched(r, 2) /\ ~Matched(r, 1) /\ ~Matched(r, 3)
                 /\ req[r].batch[1].castable /\ req[r].batch[3].castable )
               => /\ Len(req[r].successful) = 2
                  /\ Len(req[r].failed) = 1
                  /\ req[r].failed[1].pos = 2
                  /\ req[r].failed[1].deviceId = req[r].batch[2].deviceId

C3_Witness ==
    \E r \in ReqIds :
        /\ req[r].pc = "done"
        /\ Len(req[r].batch) = 3
        /\ req[r].seen > 0
        /\ Matched(r, 2) /\ ~Matched(r, 1) /\ ~Matched(r, 3)
        /\ Persisted(r, 1) /\ Persisted(r, 3)

\* C4: every document syncResponses stores has the caller's team and user
\* id, syncStatus 'synced' and a syncHistory of one 'synced' entry, whatever
\* the submitted item carried in those fields.
C4_OwnershipFromCaller ==
    \A i \in Records :
        db[i].by \in ReqIds =>
            /\ db[i].team = req[db[i].by].user.team
            /\ db[i].collectedBy = req[db[i].by].user.id
            /\ db[i].syncStatus = "synced"
            /\ db[i].syncHistory = <<"synced">>

C4_Witness ==
    \E i \in Records :
        /\ db[i].by \in ReqIds
        /\ LET item == req[db[i].by].batch[db[i].pos]
               user == req[db[i].by].user
           IN /\ item.team \notin {NoValue, user.team}
              /\ item.collectedBy \notin {NoValue, user.id}
              /\ item.syncStatus = "pending"
              /\ item.syncHistory = <<"failed">>

InFlight == {c \in ReqIds : call[c].pc = "wait"}

\* C5: at most one syncOfflineResponses request is in flight at any time.
C5_OneSyncInFlight == Cardinality(InFlight) <= 1

Stored == 1..Len(surveys)

\* C6: a survey that was queued is in the queue, or in a batch that is in
\* flight, until the server has acknowledged a batch that contained it.
C6_QueuedUntilAcknowledged ==
    \A i \in Stored :
        surveys[i].syncStatus = "pending" =>
            \/ surveys[i].id \in Ids(queue)
            \/ surveys[i].id \in acked
            \/ \E c \in InFlight : surveys[i].id \in Ids(call[c].batch)

\* C7: two surveys recorded offline and then synced by one call to a
\* reachable server: the queue is empty and both surveys are stored on the
\* server as documents of their own with syncStatus 'synced'.
C7_OfflineReplay ==
    \A c \in ReqIds :
        ( /\ call[c].pc = "ok"
          /\ \A d \in ReqIds \ {c} : call[d].pc = "idle"
          /\ Len(surveys) = 2 /\ Len(call[c].batch) = 2
          /\ \A i \in Stored : surveys[i].syncStatus = "pending" )
        => /\ queue = <<>>
           /\ \A n \in Ids(call[c].batch) :
                \E i \in Records : db[i].localId = n /\ db[i].syncStatus = "synced"

Unacknowledged == {i \in Stored : surveys[i].id \notin acked}

\* C8: every stored survey the server has not acknowledged is in the
\* pending queue, and the pending count is the number of such surveys.
C8_UnacknowledgedAreQueued ==
    /\ \A i \in Unacknowledged : surveys[i].id \in Ids(queue)
    /\ Len(queue) = Cardinality(Unacknowledged)

\* C9: a stored survey has syncStatus 'synced' only if the server has
\* acknowledged it, and the file section shows 'All data synced' (the queue
\* is empty) only if the server has acknowledged every stored survey.
C9_SyncedOnlyIfAcknowledged ==
    /\ \A i \in Stored : surveys[i].syncStatus = "synced" => surveys[i].id \in acked
    /\ Len(queue) = 0 => Unacknowledged = {}

\* C10: the step in which a sync request fails (no answer, or a status that
\* is not OK) leaves the pending queue and the local store as they were and
\* ends the call by throwing, never as a success; and every attempt posts
\* the whole queue as it then is, so the next attempt sends the same items.
C10_FailedSyncKeepsQueue ==
    [][\A c \in ReqIds :
          /\ (call[c].pc = "wait" /\ call'[c].pc = "threw")
                => queue' = queue /\ surveys' = surveys /\ acked' = acked
          /\ (call[c].pc = "wait" /\ req[c].pc # "done")
                => call'[c].pc \in {"wait", "threw"}
          /\ (call[c].pc = "idle" /\ call'[c].pc = "wait")
                => call'[c].batch = queue /\ queue' = queue]_vars

\* A call failed on a status that is not OK, the queue still holds its
\* batch, and the next call is in flight with the same items.
C10_Witness ==
    \E c, d \in ReqIds :
        /\ call[c].pc = "threw" /\ call[c].error = "status"
        /\ call[c].batch # <<>>
        /\ queue = call[c].batch
        /\ call[d].pc = "wait" /\ call[d].batch = call[c].batch

\* C11: the step in which a sync call receives the server's success answer
\* leaves the pending queue empty, whatever the answer's successful and
\* failed lists hold; and once a call has ended in success no item of its
\* batch is in the queue again.
C11_SuccessEmptiesQueue ==
    /\ [][\A c \in ReqIds :
             (call[c].pc = "wait" /\ call'[c].pc = "ok") => queue' = <<>>]_vars
    /\ [](\A c \in ReqIds :
             call[c].pc = "ok" => Ids(call[c].batch) \cap Ids(queue) = {})

\* A call ended in success on an answer that reports an item of its batch
\* of two as failed.
C11_Witness ==
    \E c \in ReqIds :
        /\ call[c].pc = "ok"
        /\ Len(call[c].batch) = 2
        /\ Len(req[c].failed) > 0
        /\ queue = <<>>

\* C12: a sync call made while the queue is empty or navigator.onLine is
\* false ends at once as a no-op success: the step leaves the queue, the
\* local store, the server's documents and its requests as they were, and
\* no request is ever sent for that call.
C12_NoopSync ==
    /\ [][\A c \in ReqIds :
             (call[c].pc = "idle" /\ call'[c].pc # "idle"
                 /\ (Len(queue) = 0 \/ ~online))
             => /\ call'[c].pc = "noop"
                /\ queue' = queue /\ surveys' = surveys
                /\ db' = db /\ req' = req]_vars
    /\ [](\A c \in ReqIds :
             call[c].pc = "noop" => req[c].pc = "idle" /\ call[c].batch = <<>>)

\* A call ended as a no-op while offline with a survey waiting in the queue.
C12_Witness ==
    \E c \in ReqIds :
        /\ call[c].pc = "noop"
        /\ ~online
        /\ Len(queue) > 0

\* C13: once a sync call has received the server's success answer, every
\* stored survey of its batch has syncStatus 'synced' in the local store
\* and is no longer in the queue.
C13_AcknowledgedMarkedSynced ==
    \A c \in ReqIds :
        call[c].pc = "ok" =>
            \A i \in Stored :
                surveys[i].id \in Ids(call[c].batch) =>
                    /\ surveys[i].syncStatus = "synced"
                    /\ surveys[i].id \notin Ids(queue)

NoFailure == \A c \in ReqIds : call[c].pc # "threw"

\* C15: if from some point on the client stays online and logged in and no
\* sync attempt fails any more, then from some point on the pending queue
\* is empty.
C15_QueueEventuallyEmptied ==
    <>[](online /\ authToken /\ NoFailure) => <>[](Len(queue) = 0)

\* C16: every stored response references a template that is stored.
C16_TemplateOfResponseExists ==
    \A i \in Records :
        \E t \in templates : t.id = db[i].surveyTemplate

\* The status changes a record may undergo: none, or from 'pending' to
\* 'synced' or 'failed'.
StatusStep(old, new) ==
    \/ new = old
    \/ old = "pending" /\ new \in {"synced", "failed"}

\* C17: in every step, a survey that stays in the local store and a
\* document that stays on the server keep their syncStatus or move from
\* 'pending' to 'synced' or 'failed'; in particular 'synced' never turns
\* into 'pending'. Server documents are never removed or reordered.
C17_SyncedNeverReverts ==
    [][/\ \A i \in 1..Len(surveys), j \in 1..Len(surveys') :
            surveys[i].id = surveys'[j].id =>
                StatusStep(surveys[i].syncStatus, surveys'[j].syncStatus)
       /\ Len(db') >= Len(db)
       /\ \A i \in 1..Len(db) :
            /\ db'[i].id = db[i].id
            /\ StatusStep(db[i].syncStatus, db'[i].syncStatus)]_vars

\* A survey stored as 'synced' is followed in the store by a survey
\* recorded offline, the queue has been synced with success, and the server
\* holds documents.
C17_Witness ==
    /\ Len(surveys) = 2
    /\ surveys[1].syncStatus = "synced"
    /\ surveys[2].syncStatus = "pending"
    /\ \E c \in ReqIds : call[c].pc = "ok" /\ Ids(call[c].batch) = {surveys[2].id}
    /\ Len(db) = 2

\* The place of a category in the order of first entry.
EntryPos(category) ==
    CHOOSE i \in 1..Len(currentRatings) : currentRatings[i].category = category

\* Entry a comes before entry b in the ranking: a higher rating, or the
\* same rating and entered first.
RanksBefore(a, b) ==
    \/ a.rating > b.rating
    \/ a.rating = b.rating /\ EntryPos(a.category) < EntryPos(b.category)

InTop(p) == \E k \in 1..Len(topProblems) : topProblems[k] = p

\* C18: the top problems are at most 3 entries {category, rating} of the
\* current ratings, all rated above 0, in descending rating with equal
\* ratings in order of first entry; every rated entry left out ranks behind
\* every entry kept, and nothing is left out while fewer than 3 are kept;
\* A:5, B:5, C:3, D:5 entered in that order give A, B, D.
C18_TopProblems ==
    /\ Len(topProblems) <= 3
    /\ \A k \in 1..Len(topProblems) :
         /\ topProblems[k].rating > 0
         /\ \E i \in 1..Len(currentRatings) : currentRatings[i] = topProblems[k]
    /\ \A k, l \in 1..Len(topProblems) :
         k < l => RanksBefore(topProblems[k], topProblems[l])
    /\ \A i \in 1..Len(currentRatings) :
         (currentRatings[i].rating > 0 /\ ~InTop(currentRatings[i])) =>
             /\ Len(topProblems) = 3
             /\ \A k \in 1..3 : RanksBefore(topProblems[k], currentRatings[i])
    /\ currentRatings = << [category |-> "A", rating |-> 5],
                           [category |-> "B", rating |-> 5],
                           [category |-> "C", rating |-> 3],
                           [category |-> "D", rating |-> 5] >>
       => topProblems = << [category |-> "A", rating |-> 5],
                           [category |-> "B", rating |-> 5],
                           [category |-> "D", rating |-> 5] >>

\* A:5, B:5, C:3, D:5 entered in that order, with A, B, D shown.
C18_Witness ==
    /\ currentRatings = << [category |-> "A", rating |-> 5],
                           [category |-> "B", rating |-> 5],
                           [category |-> "C", rating |-> 3],
                           [category |-> "D", rating |-> 5] >>
    /\ Len(topProblems) = 3
    /\ topProblems[3].category = "D"

\* C19: processSurveyData applied to the empty list returns an object with
\* totalResponses 0, avgProblemSeverity '0.0', the empty sentinel as
\* topProblem, solutionInterest '0%' and both histograms holding 0 in each
\* of the buckets 1..5.
C19_EmptyListResult ==
    (responses = <<>> /\ processedData # NotComputed) =>
        /\ processedData.kind = "object"
        /\ processedData.totalResponses = 0
        /\ processedData.avgProblemSeverity = "0.0"
        /\ processedData.topProblem \in {"-", "No data"}
        /\ processedData.solutionInterest = "0%"
        /\ \A b \in 1..5 :
             /\ processedData.satisfaction[b] = 0
             /\ processedData.adoptionLikelihood[b] = 0

\* C20: problemDistribution holds, for each category, the number of
\* responses whose problemRatings rate it above 0.
C20_DistributionCountsResponses ==
    processedData.kind = "object" =>
        \A c \in DashCategories :
            processedData.problemDistribution[c] =
                Cardinality({i \in 1..Len(responses) : RatedIn(responses[i], c) = 1})

\* The categories at index 0 of each non-empty topProblems, in the order
\* the responses are aggregated.
RECURSIVE RankOneKeys(_)
RankOneKeys(rs) ==
    IF rs = <<>> THEN <<>>
    ELSE (IF rs[1].topProblems = <<>> THEN <<>>
          ELSE <<rs[1].topProblems[1].category>>) \o RankOneKeys(Tail(rs))

\* The number of responses whose topProblems holds c at index 0.
RankOneCount(rs, c) ==
    Cardinality({i \in 1..Len(rs) :
                    /\ rs[i].topProblems # <<>>
                    /\ rs[i].topProblems[1].category = c})

\* C21: when some response has a non-empty topProblems, topProblem is the
\* category most often at rank 1 of topProblems, the first one encountered
\* among equals (in the order of first rank-1 appearance, or in the order
\* the categories first appear in any topProblems); ranks 2 and 3 do not
\* count.
C21_TopProblemByRankOne ==
    (processedData.kind = "object" /\ RankOneKeys(responses) # <<>>) =>
        LET counts == [c \in DashCategories |-> RankOneCount(responses, c)]
            start == [maxCount |-> 0, topProblem |-> ""]
        IN processedData.topProblem \in
             {FirstMax(KeyOrder(RankOneKeys(responses)), counts, start).topProblem,
              FirstMax(KeyOrder(TopProblemKeys(responses)), counts, start).topProblem}

\* The number of responses whose interestedInTrying answer is v.
Answering(v) == Cardinality({i \in 1..Len(responses) : responses[i].interestedInTrying = v})

\* C22: the early-adopter rate is 100 * yes / (yes + no) rounded to the
\* nearest integer (half-way cases up) followed by '%', where yes and no
\* count the 'yes' and the 'no' answers, and '0%' when yes + no = 0.
C22_EarlyAdopterRate ==
    processedData.kind = "object" =>
        LET yes == Answering("yes")
            total == Answering("yes") + Answering("no")
        IN IF total = 0 THEN processedData.solutionInterest = "0%"
           ELSE \E p \in 0..100 :
                  /\ (2 * p - 1) * total <= 200 * yes
                  /\ 200 * yes < (2 * p + 1) * total
                  /\ processedData.solutionInterest = ToString(p) \o "%"

\* 3 'yes' and 7 'no' answers were aggregated to '30%'.
C22_Witness ==
    /\ processedData.kind = "object"
    /\ Answering("yes") = 3
    /\ Answering("no") = 7
    /\ processedData.solutionInterest = "30%"

\* Some response rates a category above 0.
SomeRating == \E i \in 1..Len(responses) : RatedEntries(responses[i]) # <<>>

\* C23: for a non-empty response set nothing is divided by zero: with no
\* rating above 0 the average severity is the placeholder '0.0', with no
\* interestedInTrying answer the solution interest is the placeholder '0%',
\* and every rate of the generated insights is a number.
C23_NoZeroDenominator ==
    (processedData.kind = "object" /\ Len(responses) > 0) =>
        /\ ~SomeRating => processedData.avgProblemSeverity = "0.0"
        /\ Answering("yes") + Answering("no") = 0 =>
               processedData.solutionInterest = "0%"
        /\ insights.kind = "insights"
        /\ insights.problemAnalysis.percentage \notin {"NaN", "Infinity"}
        /\ insights.solutionPotential.earlyAdopterRate \notin {"NaN", "Infinity"}
        /\ insights.marketOpportunity.conversionRate \notin {"NaN", "Infinity"}

\* C24: for a non-empty response set the satisfaction and adoptionLikelihood
\* histograms have exactly the keys 1..5, the unused buckets included, and
\* a rating outside 1..5 adds no key.
C24_HistogramKeys ==
    (processedData.kind = "object" /\ Len(responses) > 0) =>
        /\ DOMAIN processedData.satisfaction = 1..5
        /\ DOMAIN processedData.adoptionLikelihood = 1..5

\* A set with a satisfaction rating of 7 and a likelihood rating of 0 was
\* aggregated, and bucket 2 of both histograms is unused.
C24_Witness ==
    /\ processedData.kind = "object"
    /\ \E i \in 1..Len(responses) : responses[i].satisfactionRating = "7"
    /\ \E i \in 1..Len(responses) : responses[i].likelihoodRating = "0"
    /\ processedData.satisfaction[2] = 0
    /\ processedData.adoptionLikelihood[2] = 0

\* C25: once getDeviceId has generated an id it stays the stored id through
\* every submit, sync, clearData and logout, and every locally stored
\* response carries it.
C25_DeviceIdStable ==
    /\ [][deviceId # NoValue => deviceId' = deviceId]_vars
    /\ [](\A i \in 1..Len(surveys) : surveys[i].deviceId = deviceId)

\* An id was generated, a sync was answered and the second submit stored a
\* survey that carries the id.
C25_Witness ==
    /\ generated = 1
    /\ authToken
    /\ Len(surveys) > 0
    /\ \E c \in ReqIds : call[c].pc = "ok"
    /\ \E i \in 1..Len(surveys) : surveys[i].id = 2 /\ surveys[i].deviceId = deviceId

\* The key a read operation reads.
KeyOf(op) == IF op = "getAllSurveys" THEN SURVEYS ELSE PENDING_SYNC

\* C26: reading the stored surveys or the pending queue when the entry is
\* missing or corrupted yields the empty list and raises nothing.
C26_DamagedEntryReadsEmpty ==
    (got.op # NoValue /\ entry[KeyOf(got.op)] \in {"missing", "corrupted"}) =>
        /\ got.kind = "list"
        /\ got.value = <<>>

\* The batch positions of the entries of request r's successful list and of
\* its failed list, in list order.
SuccessfulPositions(r) ==
    [k \in 1..Len(req[r].successful) |-> db[req[r].successful[k]].pos]
FailedPositions(r) == [k \in 1..Len(req[r].failed) |-> req[r].failed[k].pos]

Increasing(seq) == \A i, j \in 1..Len(seq) : i < j => seq[i] < seq[j]

\* The number of items of request r the loop has finished with.
Processed(r) ==
    IF req[r].pc = "done" THEN Len(req[r].batch)
    ELSE IF req[r].pc = "idle" THEN 0 ELSE req[r].idx - 1

C28_PersistedForValidTemplate ==
    [][\A i \in (Len(db) + 1)..Len(db') :
          \E t \in templates : /\ t.id = db'[i].surveyTemplate
                               /\ t.status = "active"
                               /\ t.team = db'[i].team]_vars

\* C29: an item is reported 'already synced' only when a document with its
\* (deviceId, startTime) is stored for the caller's own team: a document of
\* another team never causes the rejection.
C29_DedupeWithinTeam ==
    \A r \in ReqIds :
        \A k \in 1..Len(req[r].failed) :
            req[r].failed[k].error = ALREADY_SYNCED =>
                \E i \in Records :
                    /\ SameKey(db[i], req[r].batch[req[r].failed[k].pos])
                    /\ db[i].team = req[r].user.team

\* C30: a template keeps the team and the creator it was created with,
\* whatever the bodies of the update requests.
C30_TeamFixedAtCreation ==
    \A t \in templates : t.team = t.owner /\ t.createdBy = t.creator

====
